---- MODULE Spec2Model ----
(***************************************************************************)
(* Hotel Management System backend (FastAPI): the authentication and       *)
(* authorization core.  The state is the users table, the wall clock, the  *)
(* bearer tokens that clients hold, and the last HTTP response.  Each      *)
(* action is one HTTP request handled to completion (dependencies, handler *)
(* and commit), or one advance of the clock.                               *)
(*                                                                         *)
(* Time is counted in minutes.  python-jose stores "exp" as whole seconds  *)
(* (timegm(utctimetuple())) and compares it with the whole-second clock,   *)
(* so integer time loses nothing.                                          *)
(***************************************************************************)
EXTENDS Integers, Sequences, FiniteSets, TLC

VARIABLES users, now, issued, resp, process, db, requests

vars == <<users, now, issued, resp, process, db, requests>>

(***************************************************************************)
(* Bounds of the model.                                                    *)
(***************************************************************************)
MaxUsers == 2
MaxTokens == 1
MaxTime == 31
MaxPatch == 1
MaxRoomTypes == 1
MaxBookings == 1
MaxRequests == 2

None == "None"

(***************************************************************************)
(* Configuration (auth.py:20-22): attributes of the auth module, assigned  *)
(* once, when the module is imported, from the process environment.        *)
(***************************************************************************)
SECRET_KEY == process.SECRET_KEY
ALGORITHM == process.ALGORITHM
ACCESS_TOKEN_EXPIRE_MINUTES == process.ACCESS_TOKEN_EXPIRE_MINUTES

\* what SECRET_KEY can be in the environment: unset, empty, or a secret
EnvSecrets == {None, "", "process-secret"}

\* the process before main.py has imported auth
Importing(secret) ==
    [phase |-> "importing", env |-> [SECRET_KEY |-> secret],
     SECRET_KEY |-> None, ALGORITHM |-> None, ACCESS_TOKEN_EXPIRE_MINUTES |-> 0]

\* auth.py:20-26 with only the unset variable refused
import_auth_unset_only ==
    /\ process.phase = "importing"
    /\ LET loaded == [process EXCEPT !.SECRET_KEY = process.env.SECRET_KEY,
                                     !.ALGORITHM = "HS256",
                                     !.ACCESS_TOKEN_EXPIRE_MINUTES = 30]
       IN  process' = IF loaded.SECRET_KEY = None
                      THEN [loaded EXCEPT !.phase = "aborted"]
                      ELSE [loaded EXCEPT !.phase = "serving"]
    /\ UNCHANGED <<users, now, issued, resp, db, requests>>

\* auth.py:20-26: the module body reads the environment and raises
\* ValueError when SECRET_KEY is unset or empty; main.py:9 imports auth, so
\* the application object is never built and nothing is served
import_auth ==
    /\ process.phase = "importing"
    /\ LET loaded == [process EXCEPT !.SECRET_KEY = process.env.SECRET_KEY,
                                     !.ALGORITHM = "HS256",
                                     !.ACCESS_TOKEN_EXPIRE_MINUTES = 30]
       IN  process' = IF loaded.SECRET_KEY = None \/ loaded.SECRET_KEY = ""
                      THEN [loaded EXCEPT !.phase = "aborted"]
                      ELSE [loaded EXCEPT !.phase = "serving"]
    /\ UNCHANGED <<users, now, issued, resp, db, requests>>

\* a process that has started with a secret in its environment
Started ==
    [phase |-> "serving", env |-> [SECRET_KEY |-> "process-secret"],
     SECRET_KEY |-> "process-secret", ALGORITHM |-> "HS256",
     ACCESS_TOKEN_EXPIRE_MINUTES |-> 30]

\* the tables besides users (models.py:33-164), all empty
EmptyDb ==
    [room_types |-> {}, rooms |-> {}, guests |-> {}, bookings |-> {},
     services |-> {}, service_orders |-> {}]

\* the requests being handled step by step, each in a thread of the
\* server's pool: none
ReqIds == 1..MaxRequests
NoRequest ==
    [pc |-> "idle", ep |-> "", auth |-> <<>>, body |-> <<>>, session |-> "none",
     opened |-> 0, closes |-> 0, status |-> 0, err |-> ""]
NoRequests == [r \in ReqIds |-> NoRequest]

(***************************************************************************)
(* Input domains.                                                          *)
(***************************************************************************)
Usernames == {"alice", "bob"}
Emails == {"a@hms", "b@hms"}
Passwords == {"password-1", "password-2"}
\* two passwords of 73 bytes with the same first 72 bytes (UserCreate.password
\* allows 128 characters)
LongPasswords == {"seventy-two-bytes+x", "seventy-two-bytes+y"}
\* passwords of fewer than 8 characters
ShortPasswords == {""}
Salts == {"salt-1"}
UserIds == 1..MaxUsers
TickSteps == {30, 31}
OtherKey == "other-secret"
ForgedSubs == {"alice"}

\* roles a request body may carry: schemas.py:19 and schemas.py:35
SchemaRoles == {"admin", "receiptionist", "housekeeping", "guest"}
\* roles of the users.role column: models.py:19
ColumnRoles == {"admin", "receptionist", "housekeeping", "guest"}
\* the roles the model registers users with
Roles == {"admin", "guest"}

(***************************************************************************)
(* Password hashing (passlib CryptContext with the bcrypt scheme): a       *)
(* salted one-way digest of the first 72 bytes of the password, the rest   *)
(* being ignored.  verify identifies the scheme of the stored hash first   *)
(* and raises UnknownHashError when the string is the hash of no scheme.   *)
(* The result of verify_password is the value returned or the raise.       *)
(***************************************************************************)
\* the first 72 bytes of a password
Truncate72(password) ==
    IF password \in LongPasswords THEN "seventy-two-bytes" ELSE password

Digest(salt, password) == <<"bcrypt-digest", salt, Truncate72(password)>>

\* a stored string that is not a hash of any scheme of the context
MalformedHash == [scheme |-> "unidentified", salt |-> "", digest |-> <<>>]

Identified(hashed_password) == hashed_password.scheme = "bcrypt"

hash_password(password, salt) ==
    [scheme |-> "bcrypt", salt |-> salt, digest |-> Digest(salt, password)]

\* verify_password that only recognises the hash scheme
verify_password_scheme_only(plain_password, hashed_password) ==
    [raised |-> FALSE, value |-> hashed_password.scheme = "bcrypt"]

verify_password(plain_password, hashed_password) ==
    IF ~Identified(hashed_password)
    THEN [raised |-> TRUE, value |-> FALSE]
    ELSE [raised |-> FALSE,
          value |-> hashed_password.digest = Digest(hashed_password.salt, plain_password)]

(***************************************************************************)
(* JWT (python-jose, HS256).  A token is its claims and a signature over   *)
(* exactly those claims under a key.                                       *)
(***************************************************************************)
Sign(payload, key) == <<ALGORITHM, key, payload>>

jwt_encode(payload, key) == [payload |-> payload, sig |-> Sign(payload, key)]

\* create_access_token signing with something other than SECRET_KEY
create_access_token_other_key(data, expires_delta, t) ==
    LET expire == IF expires_delta # <<>> /\ expires_delta[1] # 0
                  THEN t + expires_delta[1]
                  ELSE t + ACCESS_TOKEN_EXPIRE_MINUTES
        to_encode == [sub |-> data.sub, role |-> data.role, exp |-> expire]
    IN  jwt_encode(to_encode, OtherKey)

\* expires_delta is <<>> (None) or <<minutes>>; a zero timedelta is falsy
create_access_token(data, expires_delta, t) ==
    LET expire == IF expires_delta # <<>> /\ expires_delta[1] # 0
                  THEN t + expires_delta[1]
                  ELSE t + ACCESS_TOKEN_EXPIRE_MINUTES
        to_encode == [sub |-> data.sub, role |-> data.role, exp |-> expire]
    IN  jwt_encode(to_encode, SECRET_KEY)

\* jose.jwt.decode that does not verify the signature
jwt_decode_unverified(token, key, t) ==
    IF token.payload.exp < t
    THEN [ok |-> FALSE, err |-> "ExpiredSignatureError", payload |-> token.payload]
    ELSE [ok |-> TRUE, err |-> "", payload |-> token.payload]

\* jose.jwt.decode: signature first, then _validate_exp, which raises
\* ExpiredSignatureError only when exp < now
jwt_decode(token, key, t) ==
    IF token.sig # Sign(token.payload, key)
    THEN [ok |-> FALSE, err |-> "JWTError", payload |-> token.payload]
    ELSE IF token.payload.exp < t
    THEN [ok |-> FALSE, err |-> "ExpiredSignatureError", payload |-> token.payload]
    ELSE [ok |-> TRUE, err |-> "", payload |-> token.payload]

\* decode_access_token reading the username from the wrong claim
decode_access_token_role_claim(token, t) ==
    LET r == jwt_decode(token, SECRET_KEY, t)
    IN  IF ~r.ok
        THEN [ok |-> FALSE, status |-> 401, err |-> r.err, token_data |-> <<>>]
        ELSE IF r.payload.role = None
        THEN [ok |-> FALSE, status |-> 401, err |-> "MissingSub", token_data |-> <<>>]
        ELSE [ok |-> TRUE, status |-> 200, err |-> "",
              token_data |-> <<[username |-> r.payload.role]>>]

\* the result is TokenData(username=...) or the HTTPException raised
decode_access_token(token, t) ==
    LET r == jwt_decode(token, SECRET_KEY, t)
    IN  IF ~r.ok
        THEN [ok |-> FALSE, status |-> 401, err |-> r.err, token_data |-> <<>>]
        ELSE IF r.payload.sub = None
        THEN [ok |-> FALSE, status |-> 401, err |-> "MissingSub", token_data |-> <<>>]
        ELSE [ok |-> TRUE, status |-> 200, err |-> "",
              token_data |-> <<[username |-> r.payload.sub]>>]

(***************************************************************************)
(* The users table (models.py:8-23) and its queries (crud.py:12-26).       *)
(* A query result is <<>> (None) or <<row>>.                               *)
(***************************************************************************)
First(rows) == IF rows = {} THEN <<>> ELSE <<CHOOSE u \in rows : TRUE>>

get_user(us, user_id) == First({u \in us : u.id = user_id})

get_user_by_username(us, username) == First({u \in us : u.username = username})

get_user_by_email(us, email) == First({u \in us : u.email = email})

\* unique=True on username and email (models.py:13-14)
UniqueOk(us) ==
    \A u, v \in us : u.id # v.id => u.username # v.username /\ u.email # v.email

\* INTEGER PRIMARY KEY of the default sqlite store: largest id plus one
NextId(us) == IF us = {} THEN 1 ELSE (CHOOSE i \in {u.id : u \in us} : \A u \in us : u.id <= i) + 1

\* The Enum type of users.role (models.py:19) passes any string on the way
\* in (it does not validate strings, and the column of the default sqlite
\* store has no CHECK), but raises LookupError when it loads a value that
\* is not one of its names: a row with such a role is stored and can no
\* longer be loaded
Readable(row) == row.role \in ColumnRoles

\* a query raises when it has to load a row that is not readable
Unloadable(result) == result # <<>> /\ ~Readable(result[1])

(***************************************************************************)
(* Dependencies (auth.py:33, 79-110).  The result of a dependency is the   *)
(* loaded user or the HTTPException, with the guard states passed through. *)
(***************************************************************************)
Reject(trace, err) ==
    [ok |-> FALSE, status |-> 401, www |-> TRUE, err |-> err, trace |-> trace, user |-> <<>>]

\* a dependency that raised something other than an HTTPException: 500
Failed(trace, err) ==
    [ok |-> FALSE, status |-> 500, www |-> FALSE, err |-> err, trace |-> trace, user |-> <<>>]

\* OAuth2PasswordBearer: a missing Authorization header is 401
oauth2_scheme(auth) == auth # <<>>

get_current_user(auth, us, t) ==
    IF ~oauth2_scheme(auth)
    THEN Reject(<<"Unauthenticated", "Rejected">>, "NotAuthenticated")
    ELSE LET token_data == decode_access_token(auth[1], t)
         IN  IF ~token_data.ok
             THEN Reject(<<"Unauthenticated", "TokenPresented", "Rejected">>, token_data.err)
             ELSE LET user == get_user_by_username(us, token_data.token_data[1].username)
                  IN  IF Unloadable(user)
                      THEN Failed(<<"Unauthenticated", "TokenPresented", "Failed">>,
                                  "LookupError")
                      ELSE IF user = <<>>
                      THEN Reject(<<"Unauthenticated", "TokenPresented", "Rejected">>,
                                  "UnknownSubject")
                      ELSE [ok |-> TRUE, status |-> 200, www |-> FALSE, err |-> "",
                            trace |-> <<"Unauthenticated", "TokenPresented", "Authenticated">>,
                            user |-> user]

\* get_current_active_user taking the user's role from the token's claim
get_current_active_user_token_role(auth, us, t) ==
    IF ~oauth2_scheme(auth)
    THEN Reject(<<"Unauthenticated", "Rejected">>, "NotAuthenticated")
    ELSE LET token_data == decode_access_token(auth[1], t)
         IN  IF ~token_data.ok
             THEN Reject(<<"Unauthenticated", "TokenPresented", "Rejected">>, token_data.err)
             ELSE LET user == get_user_by_username(us, token_data.token_data[1].username)
                  IN  IF Unloadable(user)
                      THEN Failed(<<"Unauthenticated", "TokenPresented", "Failed">>,
                                  "LookupError")
                      ELSE IF user = <<>>
                      THEN Reject(<<"Unauthenticated", "TokenPresented", "Rejected">>,
                                  "UnknownSubject")
                      ELSE [ok |-> TRUE, status |-> 200, www |-> FALSE, err |-> "",
                            trace |-> <<"Unauthenticated", "TokenPresented", "Authenticated">>,
                            user |-> <<[user[1] EXCEPT !.role = auth[1].payload.role]>>]

\* get_current_active_user answering 403 for a user that is not found
get_current_active_user_403(auth, us, t) ==
    IF ~oauth2_scheme(auth)
    THEN Reject(<<"Unauthenticated", "Rejected">>, "NotAuthenticated")
    ELSE LET token_data == decode_access_token(auth[1], t)
         IN  IF ~token_data.ok
             THEN Reject(<<"Unauthenticated", "TokenPresented", "Rejected">>, token_data.err)
             ELSE LET user == get_user_by_username(us, token_data.token_data[1].username)
                  IN  IF Unloadable(user)
                      THEN Failed(<<"Unauthenticated", "TokenPresented", "Failed">>,
                                  "LookupError")
                      ELSE IF user = <<>>
                      THEN [Reject(<<"Unauthenticated", "TokenPresented", "Rejected">>,
                                   "UnknownSubject") EXCEPT !.status = 403]
                      ELSE [ok |-> TRUE, status |-> 200, www |-> FALSE, err |-> "",
                            trace |-> <<"Unauthenticated", "TokenPresented", "Authenticated">>,
                            user |-> user]

get_current_active_user(auth, us, t) ==
    IF ~oauth2_scheme(auth)
    THEN Reject(<<"Unauthenticated", "Rejected">>, "NotAuthenticated")
    ELSE LET token_data == decode_access_token(auth[1], t)
         IN  IF ~token_data.ok
             THEN Reject(<<"Unauthenticated", "TokenPresented", "Rejected">>, token_data.err)
             ELSE LET user == get_user_by_username(us, token_data.token_data[1].username)
                  IN  IF Unloadable(user)
                      THEN Failed(<<"Unauthenticated", "TokenPresented", "Failed">>,
                                  "LookupError")
                      ELSE IF user = <<>>
                      THEN Reject(<<"Unauthenticated", "TokenPresented", "Rejected">>,
                                  "UnknownSubject")
                      ELSE [ok |-> TRUE, status |-> 200, www |-> FALSE, err |-> "",
                            trace |-> <<"Unauthenticated", "TokenPresented", "Authenticated">>,
                            user |-> user]

\* check_user_role letting an admin pass whatever role is required
check_user_role_admin_passes(user, required_role) ==
    IF user.role # required_role /\ user.role # "admin" THEN 403 ELSE 200

\* auth.check_user_role: the single-role check of auth.py
check_user_role(user, required_role) ==
    IF user.role # required_role THEN 403 ELSE 200

\* auth.RoleChecker(allowed_roles): the role test on the loaded user
RoleAllowed(user, allowed_roles) == user.role \in allowed_roles

\* auth.RoleChecker(allowed_roles) as a dependency: load the user, then test
RoleChecker(allowed_roles, auth, us, t) ==
    LET cur == get_current_active_user(auth, us, t)
    IN  IF ~cur.ok
        THEN cur
        ELSE IF RoleAllowed(cur.user[1], allowed_roles)
        THEN [cur EXCEPT !.trace = Append(cur.trace, "Authorized")]
        ELSE [cur EXCEPT !.ok = FALSE, !.status = 403, !.www = FALSE, !.err = "Forbidden",
                         !.trace = Append(cur.trace, "Forbidden")]

(***************************************************************************)
(* Role sets of the role-gated routes (main.py) and the routes registered  *)
(* with no authentication dependency at all.                               *)
(***************************************************************************)
EndpointRoles ==
    [read_users |-> {"admin"}, read_user |-> {"admin"}, update_user |-> {"admin"},
     delete_user |-> {"admin"},
     read_guests |-> {"receptionist", "admin"},
     read_bookings |-> {"receptionist", "admin"},
     read_service_orders |-> {"receptionist", "admin"},
     read_housekeeping_tasks |-> {"housekeeping", "admin"},
     create_room_type |-> {"admin"}, create_room |-> {"admin"},
     create_guest |-> {"receptionist", "admin"},
     create_booking |-> {"receiptionist", "admin"},
     update_booking |-> {"receptionist", "admin"},
     create_service |-> {"admin"},
     create_service_order |-> {"receptionist", "admin"},
     delete_room |-> {"admin"}, delete_guest |-> {"admin"},
     update_service |-> {"admin"},
     update_service_order |-> {"receptionist", "admin"}]

PublicEndpoints == {"read_root", "login_for_access_token", "create_user"}

OpenListEndpoints == {"read_room_types", "read_rooms", "read_services"}

OpenItemEndpoints == {"read_room_type", "read_room", "read_service"}

GatedListEndpoints == {"read_guests", "read_housekeeping_tasks"}

(***************************************************************************)
(* What a client can put in the Authorization header: nothing, a token it  *)
(* was issued, an issued token with its expiry rewritten, or a token it    *)
(* signed itself with another key.                                         *)
(***************************************************************************)
Tampered(token) == [token EXCEPT !.payload.exp = token.payload.exp + ACCESS_TOKEN_EXPIRE_MINUTES]

\* an issued token with its subject rewritten, the signature left as it was
TamperedClaims(token) ==
    [token EXCEPT !.payload.sub = IF @ = "alice" THEN "bob" ELSE "alice"]

Forged(sub) ==
    jwt_encode([sub |-> sub, role |-> "admin", exp |-> now + ACCESS_TOKEN_EXPIRE_MINUTES],
               OtherKey)

Headers ==
    {<<>>} \cup {<<i.token>> : i \in issued} \cup {<<Forged(n)>> : n \in ForgedSubs}

\* a token signed with the process secret whose claims have no "sub"
Subjectless == create_access_token([sub |-> None, role |-> "admin"], <<>>, now)

\* what the staff of the desks send: nothing, or a token they were issued
StaffHeaders == {<<>>} \cup {<<i.token>> : i \in issued}

\* tokens handed to decode_access_token directly
UnitTokens ==
    {<<i.token>> : i \in issued} \cup {<<Tampered(i.token)>> : i \in issued}
                                 \cup {<<TamperedClaims(i.token)>> : i \in issued}
                                 \cup {<<Forged(n)>> : n \in ForgedSubs}
                                 \cup {<<Subjectless>>}

Response(ep, auth, status, ran, trace, www, err, body) ==
    [ep |-> ep, auth |-> auth, status |-> status, ran |-> ran,
     trace |-> trace, www |-> www, err |-> err, body |-> body]

\* a response together with the request it answers
WithRequest(response, req) ==
    [f \in DOMAIN response \cup {"req"} |-> IF f = "req" THEN req ELSE response[f]]

\* a token in a client's hands: the token, when and with what arguments it
\* was issued, and whether the user of its subject name was deleted since
Held(token, at, ttl, data) ==
    [token |-> token, at |-> at, ttl |-> ttl, data |-> data, deleted |-> FALSE]

\* no request is being answered
Idle == Response("none", <<>>, 0, FALSE, <<>>, FALSE, "", <<>>)

Init ==
    /\ users = {}
    /\ now = 0
    /\ issued = {}
    /\ resp = Idle
    /\ process = Started
    /\ db = EmptyDb
    /\ requests = NoRequests

\* the wall clock moves on
Tick(d) ==
    /\ resp = Idle
    /\ now + d <= MaxTime
    /\ now' = now + d
    /\ UNCHANGED <<users, issued, resp, process, db, requests>>

\* request bodies of POST /users/
UserCreates ==
    [username : Usernames, email : Emails, role : Roles, password : Passwords]

\* the bodies the staff of the desks register with
StaffCreates ==
    {[username |-> "alice", email |-> "a@hms", role |-> "admin", password |-> "password-1"],
     [username |-> "bob", email |-> "b@hms", role |-> "guest", password |-> "password-1"]}

\* UserUpdate bodies: every field is optional; at most MaxPatch are supplied
Supplied(u) ==
    {f \in {"username", "email", "role", "password"} : u[f] # None}

NoUpdate == [username |-> None, email |-> None, role |-> None, password |-> None]

UserUpdates ==
    {u \in [username : Usernames \cup {None}, email : Emails \cup {None},
            role : Roles \cup {None}, password : Passwords \cup {None}] :
        Cardinality(Supplied(u)) <= MaxPatch}

\* GET /
read_root ==
    /\ resp' = Response("read_root", <<>>, 200, TRUE, <<>>, FALSE, "", <<>>)
    /\ UNCHANGED <<users, now, issued, process, db, requests>>

\* the test of POST /token on the posted form: the user is loaded by name
\* and the password verified against the stored hash
authenticate(us, username, password) ==
    LET user == get_user_by_username(us, username)
    IN  IF Unloadable(user)
        THEN [status |-> 500, err |-> "LookupError"]
        ELSE IF user = <<>>
        THEN [status |-> 401, err |-> "BadCredentials"]
        ELSE LET verified == verify_password(password, user[1].hashed_password)
             IN  IF verified.raised
                 THEN [status |-> 500, err |-> "UnknownHashError"]
                 ELSE IF ~verified.value
                 THEN [status |-> 401, err |-> "BadCredentials"]
                 ELSE [status |-> 200, err |-> ""]

\* POST /token; the response records the form that was posted.  "not user
\* or not verify_password(...)" calls verify_password only for a user that
\* was found; an exception it raises is answered 500
login_for_access_token(username, password) ==
    LET form_data == <<[username |-> username, password |-> password]>>
        user == get_user_by_username(users, username)
        checked == authenticate(users, username, password)
    IN  IF checked.status # 200
        THEN /\ resp' = Response("login_for_access_token", form_data, checked.status, TRUE,
                                 <<>>, checked.status = 401, checked.err, <<>>)
             /\ UNCHANGED <<users, now, issued, process, db, requests>>
        ELSE LET access_token_expires == <<ACCESS_TOKEN_EXPIRE_MINUTES>>
                 data == [sub |-> user[1].username, role |-> user[1].role]
                 access_token == create_access_token(data, access_token_expires, now)
                 held == Held(access_token, now, access_token_expires, data)
             IN  /\ Cardinality(issued \cup {held}) <= MaxTokens
                 /\ issued' = issued \cup {held}
                 /\ resp' = Response("login_for_access_token", form_data, 200, TRUE, <<>>,
                                     FALSE, "",
                                     <<[access_token |-> access_token, token_type |-> "bearer"]>>)
                 /\ UNCHANGED <<users, now, process, db, requests>>

\* a request body validated as schemas.UserCreate: a password has at least
\* 8 characters and the role matches the pattern of schemas.py:19
UserCreate(body) ==
    IF body.password \in ShortPasswords
    THEN [ok |-> FALSE, status |-> 422, err |-> "StringTooShort"]
    ELSE IF body.role \notin SchemaRoles
    THEN [ok |-> FALSE, status |-> 422, err |-> "PatternMismatch"]
    ELSE [ok |-> TRUE, status |-> 200, err |-> ""]

\* crud.create_user
crud_create_user(us, user, salt) ==
    us \cup {[id |-> NextId(us), username |-> user.username, email |-> user.email,
              role |-> user.role, hashed_password |-> hash_password(user.password, salt)]}

\* POST /users/: the username query, then the email query, then
\* crud.create_user, whose db.refresh loads the row it has committed
create_user(user, salt) ==
    LET by_username == get_user_by_username(users, user.username)
        by_email == get_user_by_email(users, user.email)
        valid == UserCreate(user)
    IN  IF ~valid.ok
        THEN /\ resp' = Response("create_user", <<>>, valid.status, FALSE, <<>>, FALSE,
                                 valid.err, <<>>)
             /\ UNCHANGED <<users, now, issued, process, db, requests>>
        ELSE IF Unloadable(by_username) \/ (by_username = <<>> /\ Unloadable(by_email))
        THEN /\ resp' = Response("create_user", <<>>, 500, TRUE, <<>>, FALSE, "LookupError",
                                 <<>>)
             /\ UNCHANGED <<users, now, issued, process, db, requests>>
        ELSE IF by_username # <<>> \/ by_email # <<>>
        THEN /\ resp' = Response("create_user", <<>>, 400, TRUE, <<>>, FALSE, "", <<>>)
             /\ UNCHANGED <<users, now, issued, process, db, requests>>
        ELSE /\ NextId(users) <= MaxUsers
             /\ users' = crud_create_user(users, user, salt)
             /\ resp' = IF user.role \in ColumnRoles
                        THEN Response("create_user", <<>>, 201, TRUE, <<>>, FALSE, "", <<>>)
                        ELSE Response("create_user", <<>>, 500, TRUE, <<>>, FALSE,
                                      "LookupError", <<>>)
             /\ UNCHANGED <<now, issued, process, db, requests>>

\* GET /users/me/
read_users_me(auth) ==
    LET current_user == get_current_user(auth, users, now)
    IN  /\ resp' = Response("read_users_me", auth, current_user.status, current_user.ok,
                            current_user.trace, current_user.www, current_user.err, <<>>)
        /\ UNCHANGED <<users, now, issued, process, db, requests>>

\* GET /users/
read_users(auth) ==
    LET dep == RoleChecker(EndpointRoles.read_users, auth, users, now)
    IN  /\ resp' = IF dep.ok /\ \E u \in users : ~Readable(u)
                   THEN Response("read_users", auth, 500, TRUE, dep.trace, FALSE,
                                 "LookupError", <<>>)
                   ELSE Response("read_users", auth, dep.status, dep.ok, dep.trace, dep.www,
                                 dep.err, <<>>)
        /\ UNCHANGED <<users, now, issued, process, db, requests>>

\* GET /users/{user_id}
read_user(auth, user_id) ==
    LET dep == RoleChecker(EndpointRoles.read_user, auth, users, now)
        db_user == get_user(users, user_id)
    IN  /\ resp' = IF ~dep.ok
                   THEN Response("read_user", auth, dep.status, FALSE, dep.trace, dep.www,
                                 dep.err, <<>>)
                   ELSE IF Unloadable(db_user)
                   THEN Response("read_user", auth, 500, TRUE, dep.trace, FALSE,
                                 "LookupError", <<>>)
                   ELSE IF db_user = <<>>
                   THEN Response("read_user", auth, 404, TRUE, dep.trace, FALSE, "", <<>>)
                   ELSE Response("read_user", auth, 200, TRUE, dep.trace, FALSE, "", <<>>)
        /\ UNCHANGED <<users, now, issued, process, db, requests>>

\* "if user_update.<field>:" is false for None and for the empty string
Truthy(value) == value \notin {None, ""}

\* crud.update_user: the row after the assignments, before the commit
crud_update_user(db_user, user_update, salt) ==
    [id |-> db_user.id,
     username |-> IF Truthy(user_update.username) THEN user_update.username
                  ELSE db_user.username,
     email |-> IF Truthy(user_update.email) THEN user_update.email ELSE db_user.email,
     role |-> IF Truthy(user_update.role) THEN user_update.role ELSE db_user.role,
     hashed_password |-> IF Truthy(user_update.password)
                         THEN hash_password(user_update.password, salt)
                         ELSE db_user.hashed_password]

\* a request body validated as schemas.UserUpdate: every field is optional,
\* a password has at least 8 characters and a role matches the pattern
UserUpdate(body) ==
    IF body.password \in ShortPasswords
    THEN [ok |-> FALSE, status |-> 422, err |-> "StringTooShort"]
    ELSE IF body.role # None /\ body.role \notin SchemaRoles
    THEN [ok |-> FALSE, status |-> 422, err |-> "PatternMismatch"]
    ELSE [ok |-> TRUE, status |-> 200, err |-> ""]

\* PUT /users/{user_id}: the response and the users table after it.  A
\* commit that breaks a unique index raises and nothing is written;
\* db.refresh loads the row that was committed
main_update_user(auth, user_id, user_update, salt) ==
    LET dep == RoleChecker(EndpointRoles.update_user, auth, users, now)
        valid == UserUpdate(user_update)
        db_user == get_user(users, user_id)
    IN  IF ~dep.ok
        THEN [users |-> users,
              resp |-> Response("update_user", auth, dep.status, FALSE, dep.trace, dep.www,
                                dep.err, <<>>)]
        ELSE IF ~valid.ok
        THEN [users |-> users,
              resp |-> Response("update_user", auth, valid.status, FALSE, dep.trace, FALSE,
                                valid.err, <<>>)]
        ELSE IF Unloadable(db_user)
        THEN [users |-> users,
              resp |-> Response("update_user", auth, 500, TRUE, dep.trace, FALSE,
                                "LookupError", <<>>)]
        ELSE IF db_user = <<>>
        THEN [users |-> users,
              resp |-> Response("update_user", auth, 404, TRUE, dep.trace, FALSE, "", <<>>)]
        ELSE LET updated == crud_update_user(db_user[1], user_update, salt)
                 after == (users \ {db_user[1]}) \cup {updated}
             IN  IF ~UniqueOk(after)
                 THEN [users |-> users,
                       resp |-> Response("update_user", auth, 500, TRUE, dep.trace, FALSE,
                                         "IntegrityError", <<>>)]
                 ELSE IF ~Readable(updated)
                 THEN [users |-> after,
                       resp |-> Response("update_user", auth, 500, TRUE, dep.trace, FALSE,
                                         "LookupError", <<>>)]
                 ELSE [users |-> after,
                       resp |-> Response("update_user", auth, 200, TRUE, dep.trace, FALSE,
                                         "", <<>>)]

\* PUT /users/{user_id} with any body of UserUpdates; the body makes no
\* difference to a request that is refused or finds no row
update_user(auth, user_id) ==
    \E user_update \in IF RoleChecker(EndpointRoles.update_user, auth, users, now).ok
                           /\ get_user(users, user_id) # <<>>
                        THEN UserUpdates ELSE {NoUpdate}, salt \in Salts :
        LET outcome == main_update_user(auth, user_id, user_update, salt)
        IN  /\ users' = outcome.users
            /\ resp' = outcome.resp
            /\ UNCHANGED <<now, issued, process, db, requests>>

\* PUT /users/{user_id} with a given body, which the response records
update_user_with(auth, user_id, user_update, salt) ==
    LET outcome == main_update_user(auth, user_id, user_update, salt)
    IN  /\ users' = outcome.users
        /\ resp' = WithRequest(outcome.resp, [id |-> user_id, body |-> user_update])
        /\ UNCHANGED <<now, issued, process, db, requests>>

\* DELETE /users/{user_id}; the holders of tokens of the deleted user's
\* name see their subject gone
delete_user(auth, user_id) ==
    LET dep == RoleChecker(EndpointRoles.delete_user, auth, users, now)
        db_user == get_user(users, user_id)
    IN  IF ~dep.ok
        THEN /\ resp' = Response("delete_user", auth, dep.status, FALSE, dep.trace, dep.www,
                                 dep.err, <<>>)
             /\ UNCHANGED <<users, now, issued, process, db, requests>>
        ELSE IF Unloadable(db_user)
        THEN /\ resp' = Response("delete_user", auth, 500, TRUE, dep.trace, FALSE,
                                 "LookupError", <<>>)
             /\ UNCHANGED <<users, now, issued, process, db, requests>>
        ELSE IF db_user = <<>>
        THEN /\ resp' = Response("delete_user", auth, 404, TRUE, dep.trace, FALSE, "", <<>>)
             /\ UNCHANGED <<users, now, issued, process, db, requests>>
        ELSE /\ users' = users \ {db_user[1]}
             /\ issued' = {IF i.data.sub = db_user[1].username
                           THEN [i EXCEPT !.deleted = TRUE] ELSE i : i \in issued}
             /\ resp' = Response("delete_user", auth, 204, TRUE, dep.trace, FALSE, "", <<>>)
             /\ UNCHANGED <<now, process, db, requests>>

\* GET /room_types/, /rooms/, /services/: no authentication dependency
open_list(ep, auth) ==
    /\ resp' = Response(ep, auth, 200, TRUE, <<>>, FALSE, "", <<>>)
    /\ UNCHANGED <<users, now, issued, process, db, requests>>

\* GET /room_types/{id}, /rooms/{id}, /services/{id}: no authentication
\* dependency; found or not found
open_item(ep, auth, found) ==
    /\ resp' = Response(ep, auth, IF found THEN 200 ELSE 404, TRUE, <<>>, FALSE, "", <<>>)
    /\ UNCHANGED <<users, now, issued, process, db, requests>>

\* GET /guests/, /housekeeping_tasks/ (and, gated alike, /bookings/ and
\* /service_orders/)
gated_list(ep, auth) ==
    LET dep == RoleChecker(EndpointRoles[ep], auth, users, now)
    IN  /\ resp' = Response(ep, auth, dep.status, dep.ok, dep.trace, dep.www, dep.err, <<>>)
        /\ UNCHANGED <<users, now, issued, process, db, requests>>

(***************************************************************************)
(* Rooms, guests and bookings (main.py:76-202, crud.py:84-265).  A date is *)
(* a day of May 2024.  In a request body a date is <<d>>, or <<>> when the  *)
(* body does not supply it.  FastAPI resolves the route's dependencies first, then          *)
(* validates the body against the route's schema and answers 422 when it   *)
(* does not validate, and only then calls the handler.                     *)
(***************************************************************************)
Dates == {1, 3, 5}
RoomNumbers == {"101"}
GuestEmails == {"guest@hms"}
BookingIds == 1..MaxBookings

RoomCreates == [room_number : RoomNumbers, room_type_id : {1}]

GuestCreates == [email : GuestEmails]

BookingBodies ==
    [room_id : {1}, guest_id : {1},
     check_in_date : {<<>>} \cup {<<d>> : d \in Dates},
     check_out_date : {<<>>} \cup {<<d>> : d \in Dates}]

\* the answer of a dependency that raised
Refused(ep, auth, dep) ==
    Response(ep, auth, dep.status, FALSE, dep.trace, dep.www, dep.err, <<>>)

get_row(rows, id) == First({r \in rows : r.id = id})

\* validate_dates accepting every pair
BookingBase_validate_dates_skipped(self) == TRUE

\* validate_dates refusing only a check-out before the check-in
BookingBase_validate_dates_strict(self) ==
    ~(self.check_out_date[1] < self.check_in_date[1])

\* BookingBase.validate_dates: TRUE when it returns self, FALSE when it
\* raises ValueError
BookingBase_validate_dates(self) ==
    ~(self.check_out_date[1] <= self.check_in_date[1])

\* a request body validated as schemas.BookingCreate: the required fields
\* (room_id and guest_id are always supplied here), then the model validator
BookingCreate(body) ==
    IF body.check_in_date = <<>> \/ body.check_out_date = <<>>
    THEN [ok |-> FALSE, status |-> 422, err |-> "MissingField"]
    ELSE IF ~BookingBase_validate_dates(body)
    THEN [ok |-> FALSE, status |-> 422, err |-> "InvalidDateRange"]
    ELSE [ok |-> TRUE, status |-> 200, err |-> ""]

\* POST /room_types/
create_room_type(auth) ==
    LET dep == RoleChecker(EndpointRoles.create_room_type, auth, users, now)
    IN  IF ~dep.ok
        THEN /\ resp' = Refused("create_room_type", auth, dep)
             /\ UNCHANGED <<users, now, issued, process, db, requests>>
        ELSE /\ NextId(db.room_types) <= MaxRoomTypes
             /\ db' = [db EXCEPT !.room_types = @ \cup {[id |-> NextId(@)]}]
             /\ resp' = Response("create_room_type", auth, 201, TRUE, dep.trace, FALSE, "", <<>>)
             /\ UNCHANGED <<users, now, issued, process, requests>>

\* POST /rooms/
create_room(auth, room) ==
    LET dep == RoleChecker(EndpointRoles.create_room, auth, users, now)
    IN  IF ~dep.ok
        THEN /\ resp' = Refused("create_room", auth, dep)
             /\ UNCHANGED <<users, now, issued, process, db, requests>>
        ELSE IF \E r \in db.rooms : r.room_number = room.room_number
        THEN /\ resp' = Response("create_room", auth, 400, TRUE, dep.trace, FALSE, "", <<>>)
             /\ UNCHANGED <<users, now, issued, process, db, requests>>
        ELSE IF get_row(db.room_types, room.room_type_id) = <<>>
        THEN /\ resp' = Response("create_room", auth, 404, TRUE, dep.trace, FALSE, "", <<>>)
             /\ UNCHANGED <<users, now, issued, process, db, requests>>
        ELSE /\ db' = [db EXCEPT !.rooms = @ \cup {[id |-> NextId(@),
                                                    room_number |-> room.room_number,
                                                    room_type_id |-> room.room_type_id]}]
             /\ resp' = Response("create_room", auth, 201, TRUE, dep.trace, FALSE, "", <<>>)
             /\ UNCHANGED <<users, now, issued, process, requests>>

\* POST /guests/
create_guest(auth, guest) ==
    LET dep == RoleChecker(EndpointRoles.create_guest, auth, users, now)
    IN  IF ~dep.ok
        THEN /\ resp' = Refused("create_guest", auth, dep)
             /\ UNCHANGED <<users, now, issued, process, db, requests>>
        ELSE IF \E g \in db.guests : g.email = guest.email
        THEN /\ resp' = Response("create_guest", auth, 400, TRUE, dep.trace, FALSE, "", <<>>)
             /\ UNCHANGED <<users, now, issued, process, db, requests>>
        ELSE /\ db' = [db EXCEPT !.guests = @ \cup {[id |-> NextId(@), email |-> guest.email]}]
             /\ resp' = Response("create_guest", auth, 201, TRUE, dep.trace, FALSE, "", <<>>)
             /\ UNCHANGED <<users, now, issued, process, requests>>

\* crud.create_booking
crud_create_booking(bookings, booking) ==
    bookings \cup {[id |-> NextId(bookings), room_id |-> booking.room_id,
                    guest_id |-> booking.guest_id,
                    check_in_date |-> booking.check_in_date[1],
                    check_out_date |-> booking.check_out_date[1]]}

\* POST /bookings/
create_booking(auth, booking) ==
    LET dep == RoleChecker(EndpointRoles.create_booking, auth, users, now)
        valid == BookingCreate(booking)
        req == [id |-> 0, body |-> booking]
    IN  IF ~dep.ok
        THEN /\ resp' = WithRequest(Refused("create_booking", auth, dep), req)
             /\ UNCHANGED <<users, now, issued, process, db, requests>>
        ELSE IF ~valid.ok
        THEN /\ resp' = WithRequest(Response("create_booking", auth, valid.status, FALSE,
                                             dep.trace, FALSE, valid.err, <<>>), req)
             /\ UNCHANGED <<users, now, issued, process, db, requests>>
        ELSE IF get_row(db.guests, booking.guest_id) = <<>>
                \/ get_row(db.rooms, booking.room_id) = <<>>
        THEN /\ resp' = WithRequest(Response("create_booking", auth, 404, TRUE, dep.trace,
                                             FALSE, "", <<>>), req)
             /\ UNCHANGED <<users, now, issued, process, db, requests>>
        ELSE /\ NextId(db.bookings) <= MaxBookings
             /\ db' = [db EXCEPT !.bookings = crud_create_booking(@, booking)]
             /\ resp' = WithRequest(Response("create_booking", auth, 201, TRUE, dep.trace,
                                             FALSE, "", <<>>), req)
             /\ UNCHANGED <<users, now, issued, process, requests>>

\* crud.update_booking: every field the body has set is assigned; a body
\* that validated as BookingCreate has set all of them
crud_update_booking(db_booking, booking_update) ==
    [db_booking EXCEPT !.room_id = booking_update.room_id,
                       !.guest_id = booking_update.guest_id,
                       !.check_in_date = booking_update.check_in_date[1],
                       !.check_out_date = booking_update.check_out_date[1]]

\* PUT /bookings/{booking_id}: the body is declared as schemas.BookingCreate
update_booking(auth, booking_id, booking) ==
    LET dep == RoleChecker(EndpointRoles.update_booking, auth, users, now)
        valid == BookingCreate(booking)
        db_booking == get_row(db.bookings, booking_id)
        req == [id |-> booking_id, body |-> booking]
    IN  IF ~dep.ok
        THEN /\ resp' = WithRequest(Refused("update_booking", auth, dep), req)
             /\ UNCHANGED <<users, now, issued, process, db, requests>>
        ELSE IF ~valid.ok
        THEN /\ resp' = WithRequest(Response("update_booking", auth, valid.status, FALSE,
                                             dep.trace, FALSE, valid.err, <<>>), req)
             /\ UNCHANGED <<users, now, issued, process, db, requests>>
        ELSE IF db_booking = <<>>
        THEN /\ resp' = WithRequest(Response("update_booking", auth, 404, TRUE, dep.trace,
                                             FALSE, "", <<>>), req)
             /\ UNCHANGED <<users, now, issued, process, db, requests>>
        ELSE /\ db' = [db EXCEPT !.bookings =
                          (@ \ {db_booking[1]})
                              \cup {crud_update_booking(db_booking[1], booking)}]
             /\ resp' = WithRequest(Response("update_booking", auth, 200, TRUE, dep.trace,
                                             FALSE, "", <<>>), req)
             /\ UNCHANGED <<users, now, issued, process, requests>>

\* crud.delete_room and crud.delete_guest: db.delete(row), then db.commit().
\* Room.bookings and Guest.bookings are relationships without a delete
\* cascade, so the flush first sets the foreign key of every booking of the
\* row to NULL; bookings.room_id and bookings.guest_id are NOT NULL, so with
\* such a booking the commit raises IntegrityError and nothing is deleted
crud_delete(table, fk, id) ==
    LET row == get_row(db[table], id)
    IN  IF row = <<>>
        THEN [found |-> FALSE, raised |-> FALSE, rows |-> db[table]]
        ELSE IF \E b \in db.bookings : b[fk] = id
        THEN [found |-> TRUE, raised |-> TRUE, rows |-> db[table]]
        ELSE [found |-> TRUE, raised |-> FALSE, rows |-> db[table] \ {row[1]}]

\* the routes DELETE /rooms/{room_id} and DELETE /guests/{guest_id}
delete_row(ep, table, fk, auth, id) ==
    LET dep == RoleChecker(EndpointRoles[ep], auth, users, now)
        deleted == crud_delete(table, fk, id)
        req == [id |-> id, body |-> <<>>]
    IN  IF ~dep.ok
        THEN /\ resp' = WithRequest(Refused(ep, auth, dep), req)
             /\ UNCHANGED <<users, now, issued, process, db, requests>>
        ELSE IF deleted.raised
        THEN /\ resp' = WithRequest(Response(ep, auth, 500, TRUE, dep.trace, FALSE,
                                             "IntegrityError", <<>>), req)
             /\ UNCHANGED <<users, now, issued, process, db, requests>>
        ELSE IF ~deleted.found
        THEN /\ resp' = WithRequest(Response(ep, auth, 404, TRUE, dep.trace, FALSE, "", <<>>),
                                    req)
             /\ UNCHANGED <<users, now, issued, process, db, requests>>
        ELSE /\ db' = [db EXCEPT ![table] = deleted.rows]
             /\ resp' = WithRequest(Response(ep, auth, 204, TRUE, dep.trace, FALSE, "", <<>>),
                                    req)
             /\ UNCHANGED <<users, now, issued, process, requests>>

\* DELETE /rooms/{room_id}
delete_room(auth, room_id) == delete_row("delete_room", "rooms", "room_id", auth, room_id)

\* DELETE /guests/{guest_id}
delete_guest(auth, guest_id) ==
    delete_row("delete_guest", "guests", "guest_id", auth, guest_id)

(***************************************************************************)
(* Services and service orders (main.py:211-250, crud.py:323-383).  Money  *)
(* is counted in hundredths of the currency unit: the handler computes     *)
(* with Decimal on the decimal strings of its operands, which is exact.    *)
(***************************************************************************)
Prices == {10000}
Quantities == {3}
Totals == {30000, 30001, 30002, 30100}

ServiceCreates == [service_name : {"spa"}, price : Prices]

\* bodies of POST /service_orders/: the fields of schemas.ServiceOrderCreate
ServiceOrderBodies ==
    [booking_id : {1}, service_id : {1}, quantity : Quantities, total_price : Totals]

Abs(x) == IF x < 0 THEN 0 - x ELSE x

\* reading an attribute of a pydantic model: AttributeError unless the
\* model has a field of that name
HasAttr(model, name) == name \in DOMAIN model

\* POST /services/; service_name is unique (models.py:137)
create_service(auth, service) ==
    LET dep == RoleChecker(EndpointRoles.create_service, auth, users, now)
    IN  IF ~dep.ok
        THEN /\ resp' = Refused("create_service", auth, dep)
             /\ UNCHANGED <<users, now, issued, process, db, requests>>
        ELSE IF \E v \in db.services : v.service_name = service.service_name
        THEN /\ resp' = Response("create_service", auth, 500, TRUE, dep.trace, FALSE,
                                 "IntegrityError", <<>>)
             /\ UNCHANGED <<users, now, issued, process, db, requests>>
        ELSE /\ db' = [db EXCEPT !.services = @ \cup {[id |-> NextId(@),
                                                       service_name |-> service.service_name,
                                                       price |-> service.price]}]
             /\ resp' = Response("create_service", auth, 201, TRUE, dep.trace, FALSE, "", <<>>)
             /\ UNCHANGED <<users, now, issued, process, requests>>

\* POST /service_orders/.  The handler reads service_order.total_amount,
\* which is not a field of ServiceOrderCreate, and calls
\* crud.create_service_order with a keyword the function does not have;
\* an exception that is not an HTTPException is answered 500
create_service_order(auth, service_order) ==
    LET dep == RoleChecker(EndpointRoles.create_service_order, auth, users, now)
        db_service == get_row(db.services, service_order.service_id)
        req == [id |-> 0, body |-> service_order]
    IN  /\ resp' = WithRequest(
               IF ~dep.ok
               THEN Refused("create_service_order", auth, dep)
               ELSE IF db_service = <<>>
               THEN Response("create_service_order", auth, 404, TRUE, dep.trace, FALSE, "", <<>>)
               ELSE IF ~HasAttr(service_order, "total_amount")
               THEN Response("create_service_order", auth, 500, TRUE, dep.trace, FALSE,
                             "AttributeError", <<>>)
               ELSE LET expected_amount == db_service[1].price * service_order.quantity
                    IN  IF Abs(expected_amount - service_order.total_amount) > 1
                        THEN Response("create_service_order", auth, 400, TRUE, dep.trace,
                                      FALSE, "AmountMismatch", <<expected_amount>>)
                        ELSE Response("create_service_order", auth, 500, TRUE, dep.trace,
                                      FALSE, "TypeError", <<>>),
               req)
        /\ UNCHANGED <<users, now, issued, process, db, requests>>

\* bodies of PUT /services/{service_id}: the fields of schemas.ServiceCreate
ServicePrices == {10000, 12000}
ServiceUpdates == [service_name : {"spa"}, price : ServicePrices]

\* bodies of PUT /service_orders/{order_id}: the fields of
\* schemas.ServiceOrderBase
OrderQuantities == {3, 4}
ServiceOrderUpdates ==
    [booking_id : {1}, service_id : {1}, quantity : OrderQuantities,
     total_price : {30000, 40000}]

\* the columns of models.ServiceOrder that a row stores
OrderColumns == {"id", "booking_id", "service_id", "quantity", "total_amount"}

\* PUT /services/{service_id}: crud.update_service assigns every field of the
\* body to the service and commits; the orders of the service are not read
update_service(auth, service_id, service) ==
    LET dep == RoleChecker(EndpointRoles.update_service, auth, users, now)
        db_service == get_row(db.services, service_id)
        req == [id |-> service_id, body |-> service]
    IN  IF ~dep.ok
        THEN /\ resp' = WithRequest(Refused("update_service", auth, dep), req)
             /\ UNCHANGED <<users, now, issued, process, db, requests>>
        ELSE IF db_service = <<>>
        THEN /\ resp' = WithRequest(Response("update_service", auth, 404, TRUE, dep.trace,
                                             FALSE, "", <<>>), req)
             /\ UNCHANGED <<users, now, issued, process, db, requests>>
        ELSE IF \E v \in db.services : v.id # service_id /\ v.service_name = service.service_name
        THEN /\ resp' = WithRequest(Response("update_service", auth, 500, TRUE, dep.trace,
                                             FALSE, "IntegrityError", <<>>), req)
             /\ UNCHANGED <<users, now, issued, process, db, requests>>
        ELSE /\ db' = [db EXCEPT !.services =
                          (@ \ {db_service[1]})
                          \cup {[db_service[1] EXCEPT !.service_name = service.service_name,
                                                      !.price = service.price]}]
             /\ resp' = WithRequest(Response("update_service", auth, 200, TRUE, dep.trace,
                                             FALSE, "", <<>>), req)
             /\ UNCHANGED <<users, now, issued, process, requests>>

\* PUT /service_orders/{order_id}: crud.update_service_order calls setattr
\* for every field of the body; booking_id, service_id and quantity are
\* columns, total_price is not one (the column is total_amount), so the
\* commit writes the three columns and leaves total_amount as it was
update_service_order(auth, order_id, service_order) ==
    LET dep == RoleChecker(EndpointRoles.update_service_order, auth, users, now)
        db_order == get_row(db.service_orders, order_id)
        req == [id |-> order_id, body |-> service_order]
    IN  IF ~dep.ok
        THEN /\ resp' = WithRequest(Refused("update_service_order", auth, dep), req)
             /\ UNCHANGED <<users, now, issued, process, db, requests>>
        ELSE IF db_order = <<>>
        THEN /\ resp' = WithRequest(Response("update_service_order", auth, 404, TRUE,
                                             dep.trace, FALSE, "", <<>>), req)
             /\ UNCHANGED <<users, now, issued, process, db, requests>>
        ELSE /\ db' = [db EXCEPT !.service_orders =
                          (@ \ {db_order[1]})
                          \cup {[f \in OrderColumns |->
                                    IF f \in DOMAIN service_order
                                    THEN service_order[f] ELSE db_order[1][f]]}]
             /\ resp' = WithRequest(Response("update_service_order", auth, 200, TRUE,
                                             dep.trace, FALSE, "", <<>>), req)
             /\ UNCHANGED <<users, now, issued, process, requests>>

\* the response leaves the server; the next request can be taken
Deliver ==
    /\ resp # Idle
    /\ resp' = Idle
    /\ UNCHANGED <<users, now, issued, process, db, requests>>

\* requests are handled one at a time, each from its first dependency to
\* its response
Next ==
    \/ \E d \in TickSteps : Tick(d)
    \/ Deliver
    \/ resp = Idle /\ read_root
    \/ \E n \in Usernames, p \in Passwords : resp = Idle /\ login_for_access_token(n, p)
    \/ \E u \in UserCreates, s \in Salts : resp = Idle /\ create_user(u, s)
    \/ \E a \in Headers : resp = Idle /\ read_users_me(a)
    \/ \E a \in Headers : resp = Idle /\ read_users(a)
    \/ \E a \in Headers, i \in UserIds : resp = Idle /\ read_user(a, i)
    \/ \E a \in Headers, i \in UserIds : resp = Idle /\ update_user(a, i)
    \/ \E a \in Headers, i \in UserIds : resp = Idle /\ delete_user(a, i)
    \/ \E e \in OpenListEndpoints : resp = Idle /\ open_list(e, <<>>)
    \/ \E e \in OpenItemEndpoints, f \in BOOLEAN : resp = Idle /\ open_item(e, <<>>, f)
    \/ \E e \in GatedListEndpoints, a \in Headers : resp = Idle /\ gated_list(e, a)

Spec == Init /\ [][Next]_vars

(***************************************************************************)
(* The token service and the role tests on their own: tokens are issued    *)
(* for any claims and time-to-live, decoded at any time, and the role      *)
(* tests are applied to any role and any role set.                         *)
(***************************************************************************)
UnitTtls == {<<>>, <<1>>, <<ACCESS_TOKEN_EXPIRE_MINUTES>>, <<ACCESS_TOKEN_EXPIRE_MINUTES + 1>>}

unit_issue(data, ttl) ==
    LET held == Held(create_access_token(data, ttl, now), now, ttl, data)
    IN  /\ Cardinality(issued \cup {held}) <= MaxTokens
        /\ issued' = issued \cup {held}
        /\ UNCHANGED <<users, now, resp, process, db, requests>>

unit_decode(auth) ==
    LET token_data == decode_access_token(auth[1], now)
    IN  /\ resp' = Response("decode_access_token", auth, token_data.status, token_data.ok,
                            <<>>, ~token_data.ok, token_data.err, token_data.token_data)
        /\ UNCHANGED <<users, now, issued, process, db, requests>>

unit_authorize(role, allowed_roles) ==
    LET allow == RoleAllowed([role |-> role], allowed_roles)
    IN  /\ resp' = Response("RoleChecker", <<[role |-> role, allowed_roles |-> allowed_roles]>>,
                            IF allow THEN 200 ELSE 403, allow, <<>>, FALSE,
                            IF allow THEN "" ELSE "Forbidden", <<>>)
        /\ UNCHANGED <<users, now, issued, process, db, requests>>

unit_check_user_role(role, required_role) ==
    LET status == check_user_role([role |-> role], required_role)
    IN  /\ resp' = Response("check_user_role",
                            <<[role |-> role, required_role |-> required_role]>>,
                            status, status = 200, <<>>, status # 200,
                            IF status = 200 THEN "" ELSE "Forbidden", <<>>)
        /\ UNCHANGED <<users, now, issued, process, db, requests>>

NextUnit ==
    \/ \E d \in TickSteps : Tick(d)
    \/ Deliver
    \/ \E n \in Usernames, r \in ColumnRoles, ttl \in UnitTtls :
           resp = Idle /\ unit_issue([sub |-> n, role |-> r], ttl)
    \/ \E a \in UnitTokens : resp = Idle /\ unit_decode(a)
    \/ \E r \in ColumnRoles, S \in SUBSET ColumnRoles : resp = Idle /\ unit_authorize(r, S)
    \/ \E r, q \in ColumnRoles : resp = Idle /\ unit_check_user_role(r, q)

SpecUnit == Init /\ [][NextUnit]_vars

(***************************************************************************)
(* Passwords: the hashing functions applied to any password and any        *)
(* stored hash, and registration, password change and login over a users   *)
(* table that may hold a row from before the process started.              *)
(***************************************************************************)
AllPasswords == Passwords \cup LongPasswords

StoredHashes ==
    {hash_password(p, s) : p \in AllPasswords, s \in Salts} \cup {MalformedHash}

\* a row of the database file the process was started on
LegacyRow ==
    [id |-> 1, username |-> "alice", email |-> "a@hms", role |-> "guest",
     hashed_password |-> MalformedHash]

PasswordCreates ==
    [username : {"bob"}, email : {"b@hms"}, role : {"admin"}, password : AllPasswords]

InitPasswords ==
    /\ users \in {{}, {LegacyRow}}
    /\ now = 0
    /\ issued = {}
    /\ resp = Idle
    /\ process = Started
    /\ db = EmptyDb
    /\ requests = NoRequests

unit_verify_password(plain_password, hashed_password) ==
    LET verified == verify_password(plain_password, hashed_password)
    IN  /\ resp' = Response("verify_password",
                            <<[plain_password |-> plain_password,
                               hashed_password |-> hashed_password]>>,
                            IF verified.raised THEN 500 ELSE 200, ~verified.raised, <<>>,
                            FALSE, IF verified.raised THEN "UnknownHashError" ELSE "",
                            IF verified.raised THEN <<>> ELSE <<verified.value>>)
        /\ UNCHANGED <<users, now, issued, process, db, requests>>

NextPasswords ==
    \/ Deliver
    \/ \E p \in AllPasswords, h \in StoredHashes : resp = Idle /\ unit_verify_password(p, h)
    \/ \E u \in PasswordCreates, s \in Salts : resp = Idle /\ create_user(u, s)
    \/ \E n \in Usernames, p \in AllPasswords : resp = Idle /\ login_for_access_token(n, p)
    \/ \E a \in StaffHeaders, i \in UserIds : resp = Idle /\ update_user(a, i)

SpecPasswords == InitPasswords /\ [][NextPasswords]_vars

(***************************************************************************)
(* Credentials: an admin registers with a short or a long password, logs   *)
(* in with any password, and the password or the email address of the      *)
(* account is changed.                                                     *)
(***************************************************************************)
CredentialCreates ==
    [username : {"alice"}, email : {"a@hms"}, role : {"admin"},
     password : {"password-1", "seventy-two-bytes+x"}]

\* bodies of PUT /users/{user_id}: a password, an empty password, no field,
\* or only an email address
CredentialUpdates ==
    {[NoUpdate EXCEPT !.password = p] : p \in AllPasswords \cup ShortPasswords \cup {None}}
    \cup {[NoUpdate EXCEPT !.email = "b@hms"]}

NextCredentials ==
    \/ Deliver
    \/ \E u \in CredentialCreates, s \in Salts : resp = Idle /\ create_user(u, s)
    \/ \E u \in CredentialCreates, p \in AllPasswords :
           resp = Idle /\ login_for_access_token(u.username, p)
    \/ \E a \in StaffHeaders, i \in UserIds, u \in CredentialUpdates, s \in Salts :
           resp = Idle /\ update_user_with(a, i, u, s)

SpecCredentials == Init /\ [][NextCredentials]_vars

(***************************************************************************)
(* Process start: the environment holds a secret or not, main.py imports   *)
(* auth, and requests are served only by a process whose import            *)
(* succeeded.                                                              *)
(***************************************************************************)
InitStart ==
    /\ users = {}
    /\ now = 0
    /\ issued = {}
    /\ resp = Idle
    /\ process \in {Importing(secret) : secret \in EnvSecrets}
    /\ db = EmptyDb
    /\ requests = NoRequests

Serving == process.phase = "serving" /\ resp = Idle

NextStart ==
    \/ import_auth
    \/ \E d \in TickSteps : Tick(d)
    \/ Deliver
    \/ Serving /\ read_root
    \/ \E u \in StaffCreates, s \in Salts : Serving /\ create_user(u, s)
    \/ \E u \in StaffCreates, p \in Passwords : Serving /\ login_for_access_token(u.username, p)
    \/ Serving /\ \E a \in StaffHeaders : read_users_me(a)

SpecStart == InitStart /\ [][NextStart]_vars

(***************************************************************************)
(* The booking desk: the staff register and log in, an admin sets up a     *)
(* room and a guest, and bookings are created and updated.                 *)
(***************************************************************************)
NextBooking ==
    \/ Deliver
    \/ \E u \in StaffCreates, s \in Salts : resp = Idle /\ create_user(u, s)
    \/ \E u \in StaffCreates : resp = Idle /\ login_for_access_token(u.username, u.password)
    \/ \E a \in StaffHeaders : resp = Idle /\ create_room_type(a)
    \/ \E a \in StaffHeaders, r \in RoomCreates : resp = Idle /\ create_room(a, r)
    \/ \E a \in StaffHeaders, g \in GuestCreates : resp = Idle /\ create_guest(a, g)
    \/ \E a \in StaffHeaders, b \in BookingBodies : resp = Idle /\ create_booking(a, b)
    \/ \E a \in StaffHeaders, i \in BookingIds, b \in BookingBodies :
           resp = Idle /\ update_booking(a, i, b)

SpecBooking == Init /\ [][NextBooking]_vars

(***************************************************************************)
(* The front desk: an admin sets up a room and a guest, bookings are       *)
(* created and updated for any guest id and room id, and rooms and guests  *)
(* are deleted.                                                            *)
(***************************************************************************)
\* an admin registers
DeskCreates ==
    {[username |-> "alice", email |-> "a@hms", role |-> "admin", password |-> "password-1"]}

\* ids of rooms and guests in requests: the row of the desk, and no row
DeskIds == {1, 2}

DeskBookings ==
    [room_id : DeskIds, guest_id : DeskIds, check_in_date : {<<1>>}, check_out_date : {<<3>>}]

NextDesk ==
    \/ Deliver
    \/ \E u \in DeskCreates, s \in Salts : resp = Idle /\ create_user(u, s)
    \/ \E u \in DeskCreates : resp = Idle /\ login_for_access_token(u.username, u.password)
    \/ \E a \in StaffHeaders : resp = Idle /\ create_room_type(a)
    \/ \E a \in StaffHeaders, r \in RoomCreates : resp = Idle /\ create_room(a, r)
    \/ \E a \in StaffHeaders, g \in GuestCreates : resp = Idle /\ create_guest(a, g)
    \/ \E a \in StaffHeaders, b \in DeskBookings : resp = Idle /\ create_booking(a, b)
    \/ \E a \in StaffHeaders, i \in BookingIds, b \in DeskBookings :
           resp = Idle /\ update_booking(a, i, b)
    \/ \E a \in StaffHeaders, i \in DeskIds : resp = Idle /\ delete_room(a, i)
    \/ \E a \in StaffHeaders, i \in DeskIds : resp = Idle /\ delete_guest(a, i)

SpecDesk == Init /\ [][NextDesk]_vars

(***************************************************************************)
(* The service desk: the staff register and log in, an admin adds a        *)
(* service, and service orders are posted.                                 *)
(***************************************************************************)
NextOrders ==
    \/ \E d \in TickSteps : Tick(d)
    \/ Deliver
    \/ \E u \in StaffCreates, s \in Salts : resp = Idle /\ create_user(u, s)
    \/ \E u \in StaffCreates, p \in Passwords :
           resp = Idle /\ login_for_access_token(u.username, p)
    \/ \E a \in StaffHeaders, v \in ServiceCreates : resp = Idle /\ create_service(a, v)
    \/ \E a \in StaffHeaders, o \in ServiceOrderBodies :
           resp = Idle /\ create_service_order(a, o)

SpecOrders == Init /\ [][NextOrders]_vars

(***************************************************************************)
(* The ledger: the database file may hold a service and an order for it    *)
(* from before the process started; services and orders are then updated.  *)
(***************************************************************************)
\* a database with one booking, one service and one order of three units of
\* it, whose total is price x quantity
LedgerDb ==
    [room_types |-> {[id |-> 1]},
     rooms |-> {[id |-> 1, room_number |-> "101", room_type_id |-> 1]},
     guests |-> {[id |-> 1, email |-> "guest@hms"]},
     bookings |-> {[id |-> 1, room_id |-> 1, guest_id |-> 1, check_in_date |-> 1,
                    check_out_date |-> 3]},
     services |-> {[id |-> 1, service_name |-> "spa", price |-> 10000]},
     service_orders |-> {[id |-> 1, booking_id |-> 1, service_id |-> 1, quantity |-> 3,
                          total_amount |-> 30000]}]

\* create_all keeps the tables that exist (main.py:12)
InitLedger ==
    /\ users = {}
    /\ now = 0
    /\ issued = {}
    /\ resp = Idle
    /\ process = Started
    /\ db \in {EmptyDb, LedgerDb}
    /\ requests = NoRequests

LedgerIds == {1, 2}

NextLedger ==
    \/ Deliver
    \/ \E u \in DeskCreates, s \in Salts : resp = Idle /\ create_user(u, s)
    \/ \E u \in DeskCreates : resp = Idle /\ login_for_access_token(u.username, u.password)
    \/ \E a \in StaffHeaders, v \in ServiceCreates : resp = Idle /\ create_service(a, v)
    \/ \E a \in StaffHeaders, o \in ServiceOrderBodies :
           resp = Idle /\ create_service_order(a, o)
    \/ \E a \in StaffHeaders, i \in LedgerIds, v \in ServiceUpdates :
           resp = Idle /\ update_service(a, i, v)
    \/ \E a \in StaffHeaders, i \in LedgerIds, o \in ServiceOrderUpdates :
           resp = Idle /\ update_service_order(a, i, o)

SpecLedger == InitLedger /\ [][NextLedger]_vars

(***************************************************************************)
(* Roles: users are registered and updated with every role a client may    *)
(* name, log in, and call role-gated routes.                               *)
(***************************************************************************)
\* the role strings of schemas.py, models.py and main.py together
RoleNames == SchemaRoles \cup ColumnRoles

RoleCreates ==
    {[username |-> "alice", email |-> "a@hms", role |-> r, password |-> "password-1"] :
        r \in RoleNames}
    \cup {[username |-> "bob", email |-> "b@hms", role |-> r, password |-> "password-1"] :
              r \in {"admin", "receiptionist"}}

RoleUpdates == {[NoUpdate EXCEPT !.role = r] : r \in RoleNames}

\* a body of POST /bookings/ that validates
ABooking ==
    [room_id |-> 1, guest_id |-> 1, check_in_date |-> <<1>>, check_out_date |-> <<3>>]

NextRoles ==
    \/ \E d \in TickSteps : Tick(d)
    \/ Deliver
    \/ \E u \in RoleCreates, s \in Salts : resp = Idle /\ create_user(u, s)
    \/ \E u \in RoleCreates : resp = Idle /\ login_for_access_token(u.username, u.password)
    \/ \E a \in StaffHeaders : resp = Idle /\ read_users_me(a)
    \/ \E a \in StaffHeaders, i \in UserIds, u \in RoleUpdates, s \in Salts :
           resp = Idle /\ update_user_with(a, i, u, s)
    \/ \E e \in GatedListEndpoints, a \in StaffHeaders : resp = Idle /\ gated_list(e, a)
    \/ \E a \in StaffHeaders : resp = Idle /\ create_booking(a, ABooking)

SpecRoles == Init /\ [][NextRoles]_vars

(***************************************************************************)
(* Requests in threads.  POST /users/ and GET /users/me/ are handled step  *)
(* by step, each request in a thread of its own with a session of its own  *)
(* (database.py:29-34): the dependencies are resolved, the body is         *)
(* validated, the handler runs one query or one commit at a time, and the  *)
(* exit stack of the request closes the generator of get_db.  The steps of *)
(* different requests interleave.  A request is at "returned" when its     *)
(* handler returned and at "raised" when a dependency, the validation or   *)
(* the handler raised.                                                     *)
(***************************************************************************)
RaceCreates ==
    {[username |-> "alice", email |-> "a@hms", role |-> "admin", password |-> "password-1"],
     [username |-> "bob", email |-> "a@hms", role |-> "guest", password |-> "password-1"],
     [username |-> "bob", email |-> "b@hms", role |-> "guest", password |-> ""]}

\* a bearer token of somebody else's making, or no header
RaceHeaders == {<<>>} \cup {<<Forged(n)>> : n \in ForgedSubs}

Raise(req, status, err) == [req EXCEPT !.pc = "raised", !.status = status, !.err = err]

Return(req, status) == [req EXCEPT !.pc = "returned", !.status = status]

\* POST /users/ arrives: create_user depends on get_db only
receive_create_user(r, user) ==
    /\ requests[r].pc = "idle"
    /\ requests' = [requests EXCEPT ![r] = [NoRequest EXCEPT !.pc = "get_db",
                                                             !.ep = "create_user",
                                                             !.body = <<user>>]]
    /\ UNCHANGED <<users, now, issued, resp, process, db>>

\* GET /users/me/ arrives: get_current_user depends on oauth2_scheme, then
\* on get_db
receive_read_users_me(r, auth) ==
    /\ requests[r].pc = "idle"
    /\ requests' = [requests EXCEPT ![r] = [NoRequest EXCEPT !.pc = "oauth2_scheme",
                                                             !.ep = "read_users_me",
                                                             !.auth = auth]]
    /\ UNCHANGED <<users, now, issued, resp, process, db>>

\* OAuth2PasswordBearer raises 401 when there is no Authorization header;
\* get_db has not been called yet
oauth2_scheme_step(r) ==
    /\ requests[r].pc = "oauth2_scheme"
    /\ requests' = [requests EXCEPT ![r] =
                       IF oauth2_scheme(@.auth) THEN [@ EXCEPT !.pc = "get_db"]
                       ELSE Raise(@, 401, "NotAuthenticated")]
    /\ UNCHANGED <<users, now, issued, resp, process, db>>

\* database.py:30-32: db = SessionLocal(), then yield db
get_db(r) ==
    /\ requests[r].pc = "get_db"
    /\ requests' = [requests EXCEPT ![r] =
                       [@ EXCEPT !.session = "open", !.opened = @ + 1,
                                 !.pc = IF requests[r].ep = "create_user" THEN "validate"
                                        ELSE "get_current_user"]]
    /\ UNCHANGED <<users, now, issued, resp, process, db>>

\* auth.py:79-91 with the session of the request
get_current_user_step(r) ==
    /\ requests[r].pc = "get_current_user"
    /\ LET current_user == get_current_user(requests[r].auth, users, now)
       IN  requests' = [requests EXCEPT ![r] =
                           IF current_user.ok THEN Return(@, 200)
                           ELSE Raise(@, current_user.status, current_user.err)]
    /\ UNCHANGED <<users, now, issued, resp, process, db>>

\* the body of POST /users/ is validated as schemas.UserCreate: 422
validate_step(r) ==
    /\ requests[r].pc = "validate"
    /\ LET valid == UserCreate(requests[r].body[1])
       IN  requests' = [requests EXCEPT ![r] =
                           IF valid.ok THEN [@ EXCEPT !.pc = "by_username"]
                           ELSE Raise(@, valid.status, valid.err)]
    /\ UNCHANGED <<users, now, issued, resp, process, db>>

\* main.py:38-40
by_username_step(r) ==
    /\ requests[r].pc = "by_username"
    /\ LET db_user == get_user_by_username(users, requests[r].body[1].username)
       IN  requests' = [requests EXCEPT ![r] =
                           IF Unloadable(db_user) THEN Raise(@, 500, "LookupError")
                           ELSE IF db_user # <<>> THEN Raise(@, 400, "UsernameRegistered")
                           ELSE [@ EXCEPT !.pc = "by_email"]]
    /\ UNCHANGED <<users, now, issued, resp, process, db>>

\* main.py:41-43
by_email_step(r) ==
    /\ requests[r].pc = "by_email"
    /\ LET db_user == get_user_by_email(users, requests[r].body[1].email)
       IN  requests' = [requests EXCEPT ![r] =
                           IF Unloadable(db_user) THEN Raise(@, 500, "LookupError")
                           ELSE IF db_user # <<>> THEN Raise(@, 400, "EmailRegistered")
                           ELSE [@ EXCEPT !.pc = "commit"]]
    /\ UNCHANGED <<users, now, issued, resp, process, db>>

\* main.py:44, crud.py:28-44: the INSERT is committed unless it breaks a
\* unique index of the table, in which case db.commit() raises
\* IntegrityError; db.refresh then loads the row
commit_step(r, salt) ==
    /\ requests[r].pc = "commit"
    /\ LET after == crud_create_user(users, requests[r].body[1], salt)
       IN  IF ~UniqueOk(after)
           THEN /\ requests' = [requests EXCEPT ![r] = Raise(@, 500, "IntegrityError")]
                /\ UNCHANGED users
           ELSE /\ users' = after
                /\ requests' = [requests EXCEPT ![r] =
                                   IF requests[r].body[1].role \in ColumnRoles
                                   THEN Return(@, 201)
                                   ELSE Raise(@, 500, "LookupError")]
    /\ UNCHANGED <<now, issued, resp, process, db>>

\* get_db written without try/finally: db.close() follows the yield and is
\* skipped when an exception is thrown into the generator
get_db_close_after_yield(r) ==
    /\ requests[r].pc \in {"returned", "raised"}
    /\ requests' = [requests EXCEPT ![r] =
                       IF @.session = "open" /\ @.pc = "returned"
                       THEN [@ EXCEPT !.pc = "unwound", !.session = "closed",
                                      !.closes = @ + 1]
                       ELSE [@ EXCEPT !.pc = "unwound"]]
    /\ UNCHANGED <<users, now, issued, resp, process, db>>

\* database.py:33-34: the exit stack of the request resumes the generator,
\* by throwing the exception into it when one was raised, and the finally
\* clause closes the session; a request whose get_db was never called has
\* nothing to close
get_db_finally(r) ==
    /\ requests[r].pc \in {"returned", "raised"}
    /\ requests' = [requests EXCEPT ![r] =
                       IF @.session = "open"
                       THEN [@ EXCEPT !.pc = "unwound", !.session = "closed",
                                      !.closes = @ + 1]
                       ELSE [@ EXCEPT !.pc = "unwound"]]
    /\ UNCHANGED <<users, now, issued, resp, process, db>>

\* the response is sent and the thread is free again
respond(r) ==
    /\ requests[r].pc = "unwound"
    /\ requests' = [requests EXCEPT ![r] = NoRequest]
    /\ UNCHANGED <<users, now, issued, resp, process, db>>

\* what the thread of request r does once the request has arrived
Thread(r) ==
    \/ oauth2_scheme_step(r)
    \/ get_db(r)
    \/ get_current_user_step(r)
    \/ validate_step(r)
    \/ by_username_step(r)
    \/ by_email_step(r)
    \/ \E s \in Salts : commit_step(r, s)
    \/ get_db_finally(r)
    \/ respond(r)

NextRequests ==
    \/ \E r \in ReqIds, u \in RaceCreates : receive_create_user(r, u)
    \/ \E r \in ReqIds, a \in RaceHeaders : receive_read_users_me(r, a)
    \/ \E r \in ReqIds : Thread(r)

SpecRequests == Init /\ [][NextRequests]_vars

\* a thread that can take a step takes it
SpecRequestsFair == SpecRequests /\ \A r \in ReqIds : WF_vars(Thread(r))

(***************************************************************************)
(* Vocabulary of the properties.                                           *)
(***************************************************************************)
\* a step that takes one request and produces its response
HandlesRequest == resp = Idle /\ resp' # Idle

ProtectedEndpoints == DOMAIN EndpointRoles \cup {"read_users_me"}

SignatureVerifies(token) == token.sig = Sign(token.payload, SECRET_KEY)

SubjectExists(token, us) == \E u \in us : u.username = token.payload.sub

Last(trace) == trace[Len(trace)]

ReachedAuthenticated(r) == Len(r.trace) >= 3 /\ r.trace[3] = "Authenticated"

\* a header the server itself takes for a valid bearer token at time t
ValidBearer(auth, us, t) ==
    /\ auth # <<>>
    /\ SignatureVerifies(auth[1])
    /\ t <= auth[1].payload.exp
    /\ SubjectExists(auth[1], us)

GuardPaths ==
    {<<"Unauthenticated", "Rejected">>,
     <<"Unauthenticated", "TokenPresented", "Rejected">>,
     <<"Unauthenticated", "TokenPresented", "Authenticated">>,
     <<"Unauthenticated", "TokenPresented", "Authenticated", "Authorized">>,
     <<"Unauthenticated", "TokenPresented", "Authenticated", "Forbidden">>}

(***************************************************************************)
(* C1.  A request is authenticated only if, at the moment of the request,  *)
(* the token's signature verifies under the process secret, the current    *)
(* time is before the token's expiry, and the token's subject is the       *)
(* username of a user in the store.                                        *)
(***************************************************************************)
C1_AuthenticatedOnlyIfValid ==
    [][HandlesRequest /\ ReachedAuthenticated(resp') =>
          /\ resp'.auth # <<>>
          /\ SignatureVerifies(resp'.auth[1])
          /\ now < resp'.auth[1].payload.exp
          /\ SubjectExists(resp'.auth[1], users)]_vars

(***************************************************************************)
(* C2.  Once the user a token was issued for has been deleted, every later *)
(* request with that token is answered 401.                                *)
(***************************************************************************)
C2_DeletedSubjectRejectedForever ==
    [][HandlesRequest /\ resp'.ep \in ProtectedEndpoints
          /\ (\E i \in issued : i.deleted /\ resp'.auth = <<i.token>>)
       => resp'.status = 401]_vars

(***************************************************************************)
(* C3.  A request to an endpoint other than GET /, POST /token and         *)
(* POST /users/ that carries no valid bearer token is answered 401 and     *)
(* its handler does not run.                                               *)
(***************************************************************************)
C3_NonPublicRequiresAuth ==
    [][HandlesRequest /\ resp'.ep \notin PublicEndpoints
          /\ ~ValidBearer(resp'.auth, users, now)
       => resp'.status = 401 /\ ~resp'.ran]_vars

(***************************************************************************)
(* C4.  A request to a protected endpoint passes through the guard states  *)
(* Unauthenticated, TokenPresented, then Authenticated or Rejected, and    *)
(* from Authenticated to Authorized or Forbidden.  Rejected is 401,        *)
(* Forbidden is 403, and in neither does the handler run or the store      *)
(* change; 403 is answered only after Authenticated; the handler of a      *)
(* role-gated endpoint runs only in Authorized; a request whose token is   *)
(* absent or invalid ends Rejected with 401.                               *)
(***************************************************************************)
GuardOutcome(r, us, t) ==
    /\ r.trace \in GuardPaths
    /\ Last(r.trace) = "Rejected" => r.status = 401 /\ ~r.ran
    /\ Last(r.trace) = "Forbidden" => r.status = 403 /\ ~r.ran
    /\ r.status = 403 => ReachedAuthenticated(r) /\ Last(r.trace) = "Forbidden"
    /\ r.ran => Last(r.trace) = IF r.ep \in DOMAIN EndpointRoles
                                THEN "Authorized" ELSE "Authenticated"
    /\ ~ValidBearer(r.auth, us, t) => Last(r.trace) = "Rejected" /\ r.status = 401

C5_AuthorizeIsMembership ==
    /\ resp.ep = "RoleChecker" =>
          /\ resp.status = IF resp.auth[1].role \in resp.auth[1].allowed_roles
                           THEN 200 ELSE 403
          /\ resp.ran <=> resp.auth[1].role \in resp.auth[1].allowed_roles
          /\ resp.auth[1].allowed_roles = {} => resp.status = 403
    /\ resp.ep = "check_user_role" =>
          /\ resp.status = IF resp.auth[1].role \in {resp.auth[1].required_role}
                           THEN 200 ELSE 403
          /\ resp.ran <=> resp.status = 200

C5_Witness ==
    /\ resp.ep = "RoleChecker"
    /\ resp.auth[1] = [role |-> "admin", allowed_roles |-> {"admin", "receptionist"}]
    /\ resp.status = 200

(***************************************************************************)
(* C6.  A request to a role-gated endpoint that was authenticated is       *)
(* authorized or forbidden by the role stored for the token's subject at   *)
(* the time of the request, whatever role the token carries.               *)
(***************************************************************************)
StoredRole(token, us) == (CHOOSE u \in us : u.username = token.payload.sub).role

Matching(form, us) ==
    {u \in us : /\ u.username = form.username
                /\ u.hashed_password.digest = Digest(u.hashed_password.salt, form.password)}

LoginGranted(r, us) ==
    /\ r.status = 200
    /\ Len(r.body) = 1
    /\ r.body[1].token_type = "bearer"
    /\ SignatureVerifies(r.body[1].access_token)
    /\ r.body[1].access_token.payload.sub = r.auth[1].username
    /\ \A u \in Matching(r.auth[1], us) : r.body[1].access_token.payload.role = u.role

LoginRefused(r) ==
    /\ r.status = 401
    /\ r.www
    /\ r.body = <<>>

C9_RoundTripSubjectAndRole ==
    \A i \in issued :
        /\ resp.ep = "decode_access_token"
        /\ resp.auth = <<i.token>>
        /\ now < i.token.payload.exp
        => /\ resp.ran
           /\ Len(resp.body) = 1
           /\ resp.body[1].username = i.data.sub
           /\ "role" \in DOMAIN resp.body[1]
           /\ resp.body[1].role = i.data.role

(***************************************************************************)
(* C9 as amended.  Decoding a token before its expiry returns the subject  *)
(* it was issued for, as TokenData.username, and nothing else; the role    *)
(* it was issued for is carried in the token.                              *)
(***************************************************************************)
C9_RoundTripSubject ==
    \A i \in issued :
        /\ i.token.payload.role = i.data.role
        /\ resp.ep = "decode_access_token" /\ resp.auth = <<i.token>>
           /\ now < i.token.payload.exp
           => /\ resp.ran
              /\ resp.status = 200
              /\ resp.body = <<[username |-> i.data.sub]>>

C9_Witness ==
    /\ resp.ep = "decode_access_token"
    /\ resp.ran
    /\ \E i \in issued : /\ resp.auth = <<i.token>>
                         /\ now < i.token.payload.exp
                         /\ i.data = [sub |-> "alice", role |-> "admin"]

(***************************************************************************)
(* C10.  A token issued at time T with time-to-live ttl (30 minutes when   *)
(* none is given) carries the expiry T + ttl and is accepted exactly       *)
(* while now < T + ttl; at or after T + ttl decoding fails as expired      *)
(* with 401.                                                               *)
(***************************************************************************)
TtlOf(i) == IF i.ttl = <<>> THEN ACCESS_TOKEN_EXPIRE_MINUTES ELSE i.ttl[1]

C10_AcceptedOnlyBeforeExpiry ==
    \A i \in issued :
        /\ i.token.payload.exp = i.at + TtlOf(i)
        /\ resp.ep = "decode_access_token" /\ resp.auth = <<i.token>>
           => /\ resp.ran <=> now < i.at + TtlOf(i)
              /\ ~resp.ran => resp.status = 401 /\ resp.err = "ExpiredSignatureError"

(***************************************************************************)
(* C11.  Decoding never fails otherwise than with 401: a token whose       *)
(* claims were altered after it was issued, or that was signed with        *)
(* another key, is rejected as a signature failure, and a token signed     *)
(* with the process secret and not expired whose claims have no subject    *)
(* is rejected for the missing subject; neither yields token data.         *)
(***************************************************************************)
C11_BadTokenRejected ==
    resp.ep = "decode_access_token" =>
        /\ resp.status \in {200, 401}
        /\ ~SignatureVerifies(resp.auth[1]) =>
              /\ resp.status = 401 /\ resp.err = "JWTError"
              /\ ~resp.ran /\ resp.body = <<>>
        /\ /\ SignatureVerifies(resp.auth[1])
           /\ now < resp.auth[1].payload.exp
           /\ resp.auth[1].payload.sub = None
           => /\ resp.status = 401 /\ resp.err = "MissingSub"
              /\ ~resp.ran /\ resp.body = <<>>

C11_Witness ==
    /\ resp.ep = "decode_access_token"
    /\ \E i \in issued : resp.auth = <<TamperedClaims(i.token)>>
    /\ resp.status = 401
    /\ resp.err = "JWTError"

(***************************************************************************)
(* C12.  Whatever bookings have been created and updated, every booking    *)
(* in the store has its check-out date after its check-in date.            *)
(***************************************************************************)
C12_BookingIntervalInvariant ==
    \A b \in db.bookings : b.check_out_date > b.check_in_date

C12_Witness ==
    /\ resp.ep = "update_booking"
    /\ resp.status = 200
    /\ \E b \in db.bookings :
          /\ b.id = resp.req.id
          /\ <<b.check_in_date>> = resp.req.body.check_in_date
          /\ <<b.check_out_date>> = resp.req.body.check_out_date

(***************************************************************************)
(* C13.  An authorized update of a stored booking that supplies one or     *)
(* both dates is decided on the resulting pair, each date being the        *)
(* supplied one or else the stored one: it is applied when the resulting   *)
(* check-out is after the resulting check-in, and is otherwise rejected    *)
(* as an invalid date range with the stored booking unchanged; an update   *)
(* that supplies neither date is accepted.                                 *)
(***************************************************************************)
Resulting(supplied, stored) == IF supplied = <<>> THEN stored ELSE supplied[1]

C13_UpdateRechecksResultingPair ==
    [][HandlesRequest /\ resp'.ep = "update_booking" /\ Last(resp'.trace) = "Authorized"
       => \A b \in db.bookings : b.id = resp'.req.id =>
            LET body == resp'.req.body
                check_in == Resulting(body.check_in_date, b.check_in_date)
                check_out == Resulting(body.check_out_date, b.check_out_date)
            IN  IF check_out > check_in
                THEN /\ resp'.status = 200
                     /\ \E a \in db'.bookings : /\ a.id = b.id
                                                /\ a.check_in_date = check_in
                                                /\ a.check_out_date = check_out
                ELSE /\ resp'.err = "InvalidDateRange"
                     /\ ~resp'.ran
                     /\ db' = db]_vars

(***************************************************************************)
(* C14.  The date check accepts a pair exactly when the check-out is       *)
(* after the check-in, so equal dates are refused (1 May to 3 May is       *)
(* accepted; 3 May to 3 May and 5 May to 1 May are refused); an            *)
(* authorized create-booking request with both dates is refused as an      *)
(* invalid date range exactly when its pair is refused, and a refused      *)
(* request adds no booking.                                                *)
(***************************************************************************)
C14_CreateChecksInterval ==
    [][/\ BookingBase_validate_dates([check_in_date |-> <<1>>, check_out_date |-> <<3>>])
       /\ ~BookingBase_validate_dates([check_in_date |-> <<3>>, check_out_date |-> <<3>>])
       /\ ~BookingBase_validate_dates([check_in_date |-> <<5>>, check_out_date |-> <<1>>])
       /\ \A b \in BookingBodies : b.check_in_date # <<>> /\ b.check_out_date # <<>> =>
             (BookingBase_validate_dates(b) <=> b.check_out_date[1] > b.check_in_date[1])
       /\ HandlesRequest /\ resp'.ep = "create_booking" /\ Last(resp'.trace) = "Authorized"
             /\ resp'.req.body.check_in_date # <<>> /\ resp'.req.body.check_out_date # <<>>
          => IF resp'.req.body.check_out_date[1] > resp'.req.body.check_in_date[1]
             THEN resp'.err = "" /\ resp'.status \in {201, 404}
             ELSE /\ resp'.err = "InvalidDateRange"
                  /\ ~resp'.ran
                  /\ resp'.status \notin {200, 201}
                  /\ db' = db]_vars

C14_Witness ==
    /\ resp.ep = "create_booking"
    /\ resp.req.body.check_in_date = <<3>>
    /\ resp.req.body.check_out_date = <<3>>
    /\ resp.err = "InvalidDateRange"
    /\ db.bookings = {}

(***************************************************************************)
(* C15.  An authorized POST /service_orders/ for an existing service is    *)
(* decided by expected = price x quantity: the order is stored and the     *)
(* answer is 201 exactly when the stated total is within 0.01 of           *)
(* expected; otherwise the answer is 400 naming the expected amount and    *)
(* no order is stored.                                                     *)
(***************************************************************************)
Expected(r, tables) ==
    (CHOOSE v \in tables.services : v.id = r.req.body.service_id).price
        * r.req.body.quantity

OrdersExistingService(r, tables) ==
    /\ r.ep = "create_service_order"
    /\ Last(r.trace) = "Authorized"
    /\ \E v \in tables.services : v.id = r.req.body.service_id

C15_OrderStoredIffAmountMatches ==
    [][HandlesRequest /\ OrdersExistingService(resp', db)
       => IF Abs(Expected(resp', db) - resp'.req.body.total_price) <= 1
          THEN /\ resp'.status = 201
               /\ Cardinality(db'.service_orders) = Cardinality(db.service_orders) + 1
          ELSE /\ resp'.status = 400
               /\ resp'.body = <<Expected(resp', db)>>
               /\ db'.service_orders = db.service_orders]_vars

(***************************************************************************)
(* C16.  For a service priced 100.00 and quantity 3, an order stating      *)
(* 300.00 is accepted, an order stating 300.02 is accepted, and an order   *)
(* stating 301.00 is rejected with 400 naming 300.00 as expected.          *)
(***************************************************************************)
C16_AmountExamples ==
    [][/\ HandlesRequest /\ OrdersExistingService(resp', db)
       /\ Expected(resp', db) = 30000
       => /\ resp'.req.body.total_price \in {30000, 30002} => resp'.status = 201
          /\ resp'.req.body.total_price = 30100
                => resp'.status = 400 /\ resp'.body = <<30000>>]_vars

(***************************************************************************)
(* C17.  Every error keeps its own status up to the response: a missing,   *)
(* invalid or expired token, a missing subject, an unknown subject and     *)
(* bad credentials are 401, a forbidden role is 403, an invalid date       *)
(* range and an amount mismatch are 400; and a request answered with such  *)
(* an error has written nothing.                                           *)
(***************************************************************************)
AuthErrors ==
    {"NotAuthenticated", "JWTError", "ExpiredSignatureError", "MissingSub",
     "UnknownSubject", "BadCredentials"}

C17_ErrorsKeepTheirStatus ==
    [][HandlesRequest
       => /\ resp'.err \in AuthErrors
                => resp'.status = 401 /\ users' = users /\ db' = db /\ issued' = issued
          /\ resp'.err = "Forbidden"
                => resp'.status = 403 /\ ~resp'.ran /\ users' = users /\ db' = db
          /\ resp'.err = "InvalidDateRange"
                => resp'.status = 400 /\ ~resp'.ran /\ db' = db
          /\ /\ OrdersExistingService(resp', db)
             /\ Abs(Expected(resp', db) - resp'.req.body.total_price) > 1
             => resp'.status = 400 /\ db' = db]_vars

(***************************************************************************)
(* C18.  Against the hash made from a password, that password verifies     *)
(* and no other password does; and a login for a user succeeds exactly     *)
(* with the password the user's stored hash was made from.                 *)
(***************************************************************************)
C18_OnlyThePasswordVerifies ==
    /\ resp.ep = "verify_password" =>
          \A p \in AllPasswords, s \in Salts :
              resp.auth[1].hashed_password = hash_password(p, s)
              => /\ resp.ran
                 /\ resp.body = <<resp.auth[1].plain_password = p>>
    /\ resp.ep = "login_for_access_token" =>
          \A u \in users, p \in AllPasswords, s \in Salts :
              /\ u.username = resp.auth[1].username
              /\ u.hashed_password = hash_password(p, s)
              => (resp.status = 200 <=> resp.auth[1].password = p)

(***************************************************************************)
(* C19.  Verifying against a stored string that is not a hash returns      *)
(* false and does not raise, so a login for a user whose stored hash is    *)
(* malformed is answered 401 like any bad credentials.                     *)
(***************************************************************************)
C19_MalformedHashIsBadCredentials ==
    /\ resp.ep = "verify_password" /\ ~Identified(resp.auth[1].hashed_password)
          => resp.ran /\ resp.body = <<FALSE>>
    /\ resp.ep = "login_for_access_token" =>
          \A u \in users :
              u.username = resp.auth[1].username /\ ~Identified(u.hashed_password)
              => resp.status = 401 /\ resp.err = "BadCredentials"

(***************************************************************************)
(* C20.  A process whose environment has no secret, unset or empty, never  *)
(* serves: it answers no request, issues no token and decodes none.  A     *)
(* process that serves has the secret of its environment, and its secret,  *)
(* algorithm and token lifetime stay what they were when it started.       *)
(***************************************************************************)
C20_NoSecretNoService ==
    [][/\ process'.env.SECRET_KEY \in {None, ""}
             => /\ process'.phase # "serving"
                /\ resp' = Idle /\ issued' = {} /\ users' = {}
       /\ process'.phase = "serving"
             => /\ process'.SECRET_KEY = process'.env.SECRET_KEY
                /\ process'.SECRET_KEY \notin {None, ""}
       /\ process.phase = "serving" => process' = process
       /\ \A i \in issued' : SignatureVerifies(i.token)' /\ i.token.sig[2] \notin {None, ""}]_vars

C20_Witness ==
    /\ process.phase = "aborted"
    /\ process.env.SECRET_KEY = ""
    /\ now > 0

(***************************************************************************)
(* C21.  A token is never revoked early: at every moment before its        *)
(* expiry at which a user with the token's subject name is stored, the     *)
(* token authenticates, whatever requests were handled since it was        *)
(* issued.                                                                 *)
(***************************************************************************)
C21_NoEarlyRevocation ==
    \A i \in issued :
        now < i.token.payload.exp /\ SubjectExists(i.token, users)
            => get_current_user(<<i.token>>, users, now).ok

(***************************************************************************)
(* C22.  No two stored users have the same username, and a registration    *)
(* whose username or email is in use when its handler decides is answered  *)
(* 400 and leaves the users table as it was, also when the steps of two    *)
(* requests interleave.                                                    *)
(***************************************************************************)
\* the handler of registration r decides in this step
Decides(r) ==
    /\ requests[r].ep = "create_user"
    /\ requests[r].pc \in {"by_username", "by_email", "commit"}
    /\ requests'[r].pc \in {"returned", "raised"}

InUse(user, us) == \E u \in us : u.username = user.username \/ u.email = user.email

C22_UniqueUsernames ==
    /\ [](\A u, v \in users : u.username = v.username => u = v)
    /\ [][\A r \in ReqIds :
             Decides(r) /\ InUse(requests[r].body[1], users)
                 => requests'[r].status = 400 /\ users' = users]_vars

(***************************************************************************)
(* C23.  A session that a request acquired through get_db is closed        *)
(* exactly once, whether the handler returned, a dependency or the         *)
(* validation raised, or the handler raised an unexpected error: no        *)
(* request ends with its session open, and every open session is           *)
(* eventually closed.                                                      *)
(***************************************************************************)
C23_SessionReleased ==
    /\ [](\A r \in ReqIds :
             /\ requests[r].closes <= requests[r].opened
             /\ requests[r].opened <= 1
             /\ requests[r].session = "open" => requests[r].closes = 0
             /\ requests[r].pc = "unwound" =>
                    /\ requests[r].session # "open"
                    /\ requests[r].closes = requests[r].opened)
    /\ \A r \in ReqIds :
           (requests[r].session = "open") ~> (requests[r].session = "closed")

\* a registration that lost the race for a username has ended with an
\* unexpected error, and its session is closed
C23_Witness ==
    \E r \in ReqIds :
        /\ requests[r].pc = "unwound"
        /\ requests[r].err = "IntegrityError"
        /\ requests[r].opened = 1
        /\ requests[r].closes = 1
        /\ requests[r].session = "closed"

(***************************************************************************)
(* C24.  A token authenticates only as the user it was issued to: once     *)
(* that user has been deleted, no request carrying the token reaches       *)
(* Authenticated, whoever is registered under the name since.              *)
(***************************************************************************)
C24_IdentityBinding ==
    [][HandlesRequest /\ ReachedAuthenticated(resp')
       => \A i \in issued : resp'.auth = <<i.token>> => ~i.deleted]_vars

(***************************************************************************)
(* C25.  Nobody gains privileges through the public routes: on a store     *)
(* that starts without an admin, no token in a client's hands is ever      *)
(* Authorized on an admin-only route, and POST /users/ stores no user with *)
(* a role other than guest.                                                *)
(***************************************************************************)
C25_NoEscalation ==
    /\ [](\A i \in issued : ~RoleChecker({"admin"}, <<i.token>>, users, now).ok)
    /\ [][HandlesRequest /\ resp'.ep = "create_user"
          => \A u \in users' \ users : u.role = "guest"]_vars

(***************************************************************************)
(* C26.  There is one role set, that of the users.role column: every       *)
(* stored user has a role of it, every role-gated route names only roles   *)
(* of it, and POST /users/ refuses a body (422) exactly when its role is   *)
(* not of it.                                                              *)
(***************************************************************************)
C26_CanonicalRoles ==
    /\ [](\A u \in users : u.role \in ColumnRoles)
    /\ [](\A e \in DOMAIN EndpointRoles : EndpointRoles[e] \subseteq ColumnRoles)
    /\ [][\A u \in RoleCreates, s \in Salts :
             resp = Idle /\ create_user(u, s)
                 => (resp'.status = 422 <=> u.role \notin ColumnRoles)]_vars

(***************************************************************************)
(* C27.  Every stored booking refers to a stored guest and a stored room,  *)
(* after any creates, updates and deletes; POST /bookings/ stores a        *)
(* booking only for an existing guest and room and otherwise answers 404   *)
(* and stores nothing.                                                     *)
(***************************************************************************)
Refers(b, tables) ==
    /\ \E g \in tables.guests : g.id = b.guest_id
    /\ \E r \in tables.rooms : r.id = b.room_id

C27_ReferentialIntegrity ==
    /\ [](\A b \in db.bookings : Refers(b, db))
    /\ [][HandlesRequest /\ resp'.ep = "create_booking" /\ resp'.req.body \in DeskBookings
             /\ ~Refers(resp'.req.body, db)
          => resp'.status \in {401, 403, 404, 422} /\ db' = db]_vars

(***************************************************************************)
(* C28.  After any sequence of service-order creates and updates and of    *)
(* service price updates, every stored service order has a total amount    *)
(* within 0.01 of the price of its service times its quantity (amounts in  *)
(* hundredths: within 1).                                                  *)
(***************************************************************************)
AmountConsistent(o, tables) ==
    LET db_service == get_row(tables.services, o.service_id)
    IN  /\ db_service # <<>>
        /\ Abs(db_service[1].price * o.quantity - o.total_amount) <= 1

Unsupplied(body, field) == body[field] = None

C29_PasswordChange ==
    [][\A i \in UserIds :
           HandlesRequest /\ resp'.ep = "update_user" /\ resp'.req.id = i
               /\ get_user(users, i) # <<>>
           => /\ get_user(users', i) # <<>>
              /\ LET body == resp'.req.body
                     before == get_user(users, i)[1]
                     after == get_user(users', i)[1]
                 IN  /\ ~Truthy(body.password)
                            => after.hashed_password = before.hashed_password
                     /\ \A f \in {"username", "email", "role"} :
                            Unsupplied(body, f) => after[f] = before[f]
                     /\ resp'.status = 200 /\ Truthy(body.password)
                            => /\ authenticate(users', after.username, body.password).status
                                      = 200
                               /\ \A old \in AllPasswords \ {body.password} :
                                      authenticate(users, before.username, old).status = 200
                                          => authenticate(users', after.username, old).status
                                                 = 401]_vars

====
